---- MODULE Spec2Model ----
(***************************************************************************)
(* Model of pkg/compression: detection of a compression format by its     *)
(* magic prefix (DetectCompressionFormat, DetectCompression), transparent *)
(* decompression (AutoDecompress) and compressor dispatch by name         *)
(* (CompressStream).                                                       *)
(*                                                                         *)
(* Bytes are integers 0..255.  Errors are records [msg, arg, cause] of    *)
(* strings; the nil error is NilErr.  The codecs themselves (pgzip,       *)
(* bzip2, xz, zstd) are external libraries: they are modelled by an       *)
(* abstract framing (the format's real header, a scrambled body, a        *)
(* checksum trailer), so that encoding is not the identity and decoding   *)
(* can fail.                                                               *)
(***************************************************************************)
EXTENDS Integers, Sequences, FiniteSets, TLC

\* ------------------------------------------------------------------ bounds

\* Longest filler appended to a head when the input streams are enumerated.
MaxTail == 4

\* Longest payload handed to a compressor.
MaxPayload == 2

\* Longest read a consumer of a returned stream asks for.
MaxRead == 3

\* ------------------------------------------------------------- constants

\* buffer := [8]byte{}
BufLen == 8

\* ---------------------------------------------------------------- errors

Err(m, a, c) == [msg |-> m, arg |-> a, cause |-> c]

NilErr == Err("", "", "")

\* io.EOF and io.ErrUnexpectedEOF, the two errors the peek tolerates.
EOF == "EOF"

ErrUnexpectedEOF == "unexpected EOF"

\* Errors a source may fail with other than end-of-stream.
RealErrors == {"io: read/write on closed pipe", "i/o timeout"}

\* errors.Wrapf(err, label): the label, with the cause kept.
Wrapf(e, label) == Err(label, "", e.msg)

\* ------------------------------------------------------------- sequences

IsPrefix(p, s) == Len(p) <= Len(s) /\ SubSeq(s, 1, Len(p)) = p

\* bytes.HasPrefix(s, prefix)
HasPrefix(s, prefix) == IsPrefix(prefix, s)

Min(a, b) == IF a < b THEN a ELSE b

Drop(s, k) == SubSeq(s, k + 1, Len(s))

RECURSIVE SumBytes(_)
SumBytes(s) == IF s = <<>> THEN 0 ELSE (s[1] + SumBytes(Tail(s))) % 256

\* ------------------------------------------------- the format registry

\* Mutant of compressionAlgos: the gzip prefix without its method byte.
compressionAlgosShortGzip ==
    [gzip  |-> [prefix |-> <<31, 139>>, decompressor |-> "GzipDecompressor"],
     bzip2 |-> [prefix |-> <<66, 90, 104>>, decompressor |-> "Bzip2Decompressor"],
     xz    |-> [prefix |-> <<253, 55, 122, 88, 90, 0>>, decompressor |-> "XzDecompressor"],
     zstd  |-> [prefix |-> <<40, 181, 47, 253>>, decompressor |-> "ZstdDecompressor"]]

\* Mutant of compressionAlgos: the gzip entry with the xz constructor.
compressionAlgosSwapped ==
    [gzip  |-> [prefix |-> <<31, 139, 8>>, decompressor |-> "XzDecompressor"],
     bzip2 |-> [prefix |-> <<66, 90, 104>>, decompressor |-> "Bzip2Decompressor"],
     xz    |-> [prefix |-> <<253, 55, 122, 88, 90, 0>>, decompressor |-> "XzDecompressor"],
     zstd  |-> [prefix |-> <<40, 181, 47, 253>>, decompressor |-> "ZstdDecompressor"]]

\* Mutant of compressionAlgos: the zstd entry with a copy of the gzip prefix.
compressionAlgosOverlap ==
    [gzip  |-> [prefix |-> <<31, 139, 8>>, decompressor |-> "GzipDecompressor"],
     bzip2 |-> [prefix |-> <<66, 90, 104>>, decompressor |-> "Bzip2Decompressor"],
     xz    |-> [prefix |-> <<253, 55, 122, 88, 90, 0>>, decompressor |-> "XzDecompressor"],
     zstd  |-> [prefix |-> <<31, 139, 8>>, decompressor |-> "ZstdDecompressor"]]

\* var compressionAlgos = map[string]struct{ prefix; decompressor }
compressionAlgos ==
    [gzip  |-> [prefix |-> <<31, 139, 8>>, decompressor |-> "GzipDecompressor"],
     bzip2 |-> [prefix |-> <<66, 90, 104>>, decompressor |-> "Bzip2Decompressor"],
     xz    |-> [prefix |-> <<253, 55, 122, 88, 90, 0>>, decompressor |-> "XzDecompressor"],
     zstd  |-> [prefix |-> <<40, 181, 47, 253>>, decompressor |-> "ZstdDecompressor"]]

AlgoNames == DOMAIN compressionAlgos

\* The absent (nil) DecompressorFunc.
NoDecompressor == ""

\* The orders in which `range compressionAlgos` may visit the map: Go leaves
\* the iteration order of a map unspecified, so every permutation is possible.
Orders ==
    {o \in [1..Cardinality(AlgoNames) -> AlgoNames] :
        \A i, j \in DOMAIN o : i # j => o[i] # o[j]}

\* The loop of DetectCompressionFormat over the registry in the order `order`:
\* the first entry whose prefix starts buf[:n] wins (break).
RECURSIVE MatchFrom(_, _, _)
MatchFrom(order, i, buf) ==
    IF i > Len(order)
    THEN [name |-> "", decompressor |-> NoDecompressor]
    ELSE IF HasPrefix(buf, compressionAlgos[order[i]].prefix)
         THEN [name |-> order[i],
               decompressor |-> compressionAlgos[order[i]].decompressor]
         ELSE MatchFrom(order, i + 1, buf)

MatchPrefix(order, buf) == MatchFrom(order, 1, buf)

\* ------------------------------------------------------ codecs (abstract)

\* The header each codec's writer emits: gzip (RFC 1952: ID1 ID2 CM FLG
\* MTIME*4 XFL OS), bzip2 ("BZh9"), xz (magic, stream flags, CRC32 of the
\* flags), zstd (magic, frame header descriptor).
Header(a) ==
    CASE a = "gzip"  -> <<31, 139, 8, 0, 0, 0, 0, 0, 0, 255>>
      [] a = "bzip2" -> <<66, 90, 104, 57>>
      [] a = "xz"    -> <<253, 55, 122, 88, 90, 0, 0, 4, 230, 214, 180, 70>>
      [] a = "zstd"  -> <<40, 181, 47, 253, 32>>

\* What a decoder accepts as a header of its format: gzip checks ID1 ID2 CM
\* only, the others the whole header.
HeaderOK(a, h) ==
    /\ Len(h) = Len(Header(a))
    /\ IF a = "gzip" THEN SubSeq(h, 1, 3) = SubSeq(Header(a), 1, 3)
                     ELSE h = Header(a)

Scramble(s) == [i \in 1..Len(s) |-> 255 - s[i]]

\* A codec's complete output for the payload b.
Encode(a, b) == Header(a) \o Scramble(b) \o <<SumBytes(b)>>

ErrCorrupt(a) == a \o ": corrupt stream"

\* A codec's decoding of the complete stream s: the payload, or an error.
Decode(a, s) ==
    LET h == Len(Header(a)) IN
    IF Len(s) < h + 1 \/ ~HeaderOK(a, SubSeq(s, 1, h))
    THEN [ok |-> FALSE, data |-> <<>>, err |-> ErrCorrupt(a)]
    ELSE LET plain == Scramble(SubSeq(s, h + 1, Len(s) - 1)) IN
         IF SumBytes(plain) = s[Len(s)]
         THEN [ok |-> TRUE, data |-> plain, err |-> ""]
         ELSE [ok |-> FALSE, data |-> <<>>, err |-> ErrCorrupt(a)]

\* io.ReadFull of a k-byte header from a stream holding `view` that ends with
\* `term`: the bytes taken and the error.
ReadHeader(k, view, term) ==
    IF Len(view) >= k
    THEN [taken |-> SubSeq(view, 1, k), err |-> ""]
    ELSE [taken |-> view,
          err |-> IF term # EOF THEN term
                  ELSE IF view = <<>> THEN EOF ELSE ErrUnexpectedEOF]

\* A constructor that reads and checks its header when it is built
\* (pgzip.NewReader, xz.NewReader).
EagerReader(a, view, term) ==
    LET r == ReadHeader(Len(Header(a)), view, term) IN
    IF r.err # "" THEN [err |-> Err(r.err, "", ""), kind |-> "nil", held |-> r.taken]
    ELSE IF ~HeaderOK(a, r.taken)
         THEN [err |-> Err(a \o ": invalid header", "", ""), kind |-> "nil",
               held |-> r.taken]
         ELSE [err |-> NilErr, kind |-> a, held |-> r.taken]

\* A constructor that reads nothing until the first Read (bzip2.NewReader,
\* zstd.NewReader).
LazyReader(a) == [err |-> NilErr, kind |-> a, held |-> <<>>]

\* func GzipDecompressor(r io.Reader) (io.ReadCloser, error)
GzipDecompressor(view, term) == EagerReader("gzip", view, term)

\* func Bzip2Decompressor(r io.Reader) (io.ReadCloser, error)
Bzip2Decompressor(view, term) == LazyReader("bzip2")

\* func XzDecompressor(r io.Reader) (io.ReadCloser, error)
XzDecompressor(view, term) == EagerReader("xz", view, term)

ErrZstdNotSupported == Err("zstd not supported", "", "")

\* func ZstdDecompressor(r io.Reader) (io.ReadCloser, error), in the build
\* with cgo and in the build without.
ZstdDecompressor(withCgo, view, term) ==
    IF withCgo THEN LazyReader("zstd")
    ELSE [err |-> ErrZstdNotSupported, kind |-> "nil", held |-> <<>>]

\* Calling a DecompressorFunc value.
CallDecompressor(d, withCgo, view, term) ==
    CASE d = "GzipDecompressor"  -> GzipDecompressor(view, term)
      [] d = "Bzip2Decompressor" -> Bzip2Decompressor(view, term)
      [] d = "XzDecompressor"    -> XzDecompressor(view, term)
      [] d = "ZstdDecompressor"  -> ZstdDecompressor(withCgo, view, term)

\* ------------------------------------------------ the compressor registry

\* An optional compression level (level *int): absent, or a value.
NoLevel == [set |-> FALSE, val |-> 0]

Level(v) == [set |-> TRUE, val |-> v]

NoWriter == [kind |-> "nil", level |-> NoLevel, hdr |-> FALSE, pos |-> 0]

\* A compressor constructor's result: the error, the writer (closed over its
\* codec and level; hdr: whether the header has been emitted) and the bytes
\* it wrote to the destination while being built.
NewWriter(a, level, emitted) ==
    [err |-> NilErr,
     writer |-> [kind |-> a, level |-> level, hdr |-> emitted # <<>>, pos |-> 0],
     emit |-> emitted]

FailWriter(e) == [err |-> e, writer |-> NoWriter, emit |-> <<>>]

\* pgzip.NewWriterLevel accepts HuffmanOnly (-2) .. BestCompression (9).
GzipLevelOK(v) == v \in (-2)..9

\* func gzipCompressor(r io.Writer, level *int) (io.WriteCloser, error)
gzipCompressor(level) ==
    IF level.set
    THEN IF GzipLevelOK(level.val)
         THEN NewWriter("gzip", level, <<>>)
         ELSE FailWriter(Err("gzip: invalid compression level", "", ""))
    ELSE NewWriter("gzip", NoLevel, <<>>)

\* func bzip2Compressor(r io.Writer, level *int) (io.WriteCloser, error)
bzip2Compressor(level) == FailWriter(Err("bzip2 compression not supported", "", ""))

\* func xzCompressor(r io.Writer, level *int) (io.WriteCloser, error):
\* xz.NewWriter takes no level and writes the stream header at once.
xzCompressor(level) == NewWriter("xz", NoLevel, Header("xz"))

\* func zstdCompressor(r io.Writer, level *int) (io.WriteCloser, error), in
\* the build with cgo and in the build without.
zstdCompressor(withCgo, level) ==
    IF ~withCgo THEN FailWriter(ErrZstdNotSupported)
    ELSE IF level.set THEN NewWriter("zstd", level, <<>>)
         ELSE NewWriter("zstd", NoLevel, <<>>)

\* Mutant of compressors: bzip2 registered with the xz constructor.
compressorsSlip ==
    [gzip  |-> "gzipCompressor",
     bzip2 |-> "xzCompressor",
     xz    |-> "xzCompressor",
     zstd  |-> "zstdCompressor"]

\* var compressors = map[string]compressorFunc
compressors ==
    [gzip  |-> "gzipCompressor",
     bzip2 |-> "bzip2Compressor",
     xz    |-> "xzCompressor",
     zstd  |-> "zstdCompressor"]

\* Calling a compressorFunc value.
CallCompressor(c, withCgo, level) ==
    CASE c = "gzipCompressor"  -> gzipCompressor(level)
      [] c = "bzip2Compressor" -> bzip2Compressor(level)
      [] c = "xzCompressor"    -> xzCompressor(level)
      [] c = "zstdCompressor"  -> zstdCompressor(withCgo, level)

\* Mutant of CompressStream: an unknown name falls back to gzip.
CompressStreamFallback(name, level, withCgo) ==
    IF name \notin DOMAIN compressors
    THEN [r |-> CallCompressor("gzipCompressor", withCgo, level),
          called |-> <<"gzipCompressor">>]
    ELSE [r |-> CallCompressor(compressors[name], withCgo, level),
          called |-> <<compressors[name]>>]

\* func CompressStream(dest io.Writer, name string, level *int): the result,
\* with the constructors it invoked.
CompressStream(name, level, withCgo) ==
    IF name \notin DOMAIN compressors
    THEN [r |-> FailWriter(Err("cannot find compressor for", name, "")),
          called |-> <<>>]
    ELSE [r |-> CallCompressor(compressors[name], withCgo, level),
          called |-> <<compressors[name]>>]

\* ------------------------------------------------------------- the state

VARIABLES
    cgo,     \* the build: TRUE with cgo, FALSE without
    op,      \* the operation under way: "detect", "auto" or "compress"
    pc,      \* where it stands
    input,   \* the source stream: its bytes, how it ends, the read position
    buffer,  \* buffer[:n], the bytes peeked so far
    rerr,    \* err of the last Read inside io.ReadAtLeast ("" is nil)
    ret,     \* what DetectCompressionFormat returned
    rs,      \* the reconstructed stream: the buffered prefix and its position
    res,     \* what AutoDecompress returned
    out,     \* the bytes a consumer has read from the returned stream
    outEnd,  \* the error that ended the consumer's reading ("" so far)
    cerr,    \* what Close of the returned stream returned
    creq,    \* the CompressStream request: name, level, payload
    wr,      \* what CompressStream returned: the error and the writer
    dest,    \* the bytes written to the destination
    calls    \* the compressor constructors invoked

vars ==
    <<cgo, op, pc, input, buffer, rerr, ret, rs, res, out, outEnd, cerr, creq,
      wr, dest, calls>>

\* --------------------------------------------------------------- inputs

TailOf(k) == [i \in 1..k |-> i]

PayloadOf(k) == [i \in 1..k |-> (31 * i) % 256]

\* The starts of the streams enumerated: every prefix of every codec's
\* header (so every prefix of every magic number, and whole headers), and
\* each magic number with its last byte wrong.
Heads ==
    UNION {{SubSeq(Header(a), 1, k) : k \in 0..Len(Header(a))} :
             a \in {"gzip", "bzip2", "xz", "zstd"}}
    \cup {<<31, 139, 9>>, <<66, 90, 105>>, <<253, 55, 122, 88, 90, 1>>,
          <<40, 181, 47, 252>>}

Inputs == {h \o TailOf(k) : h \in Heads, k \in 0..MaxTail}

Terms == {EOF} \cup RealErrors

Levels == {NoLevel, Level(-3), Level(6), Level(10)}

CompressNames == DOMAIN compressors \cup {"lz4", ""}

Payloads == {PayloadOf(k) : k \in 0..MaxPayload}

NoRequest == [name |-> "", level |-> NoLevel, payload |-> <<>>]

NewStream(data, term) == [data |-> data, term |-> term, pos |-> 0, closed |-> FALSE]

NoRet == [name |-> "", decompressor |-> NoDecompressor, stream |-> "nil", err |-> NilErr]

NoRes == [stream |-> "nil", held |-> <<>>, wasCompressed |-> FALSE, err |-> NilErr]

NoRs == [buf |-> <<>>, bpos |-> 0]

NoWr == [err |-> NilErr, writer |-> NoWriter]

Init ==
    /\ cgo \in BOOLEAN
    /\ op \in {"detect", "auto", "compress"}
    /\ IF op = "compress"
       THEN /\ pc = "compress"
            /\ input = NewStream(<<>>, EOF)
            /\ creq \in [name : CompressNames, level : Levels, payload : Payloads]
       ELSE /\ pc = "peek"
            /\ input \in {NewStream(d, t) : d \in Inputs, t \in Terms}
            /\ creq = NoRequest
    /\ buffer = <<>>
    /\ rerr = ""
    /\ ret = NoRet
    /\ rs = NoRs
    /\ res = NoRes
    /\ out = <<>>
    /\ outEnd = ""
    /\ cerr = NilErr
    /\ wr = NoWr
    /\ dest = <<>>
    /\ calls = <<>>

\* ------------------------------------------------------ reading a source

\* The results r.Read(p) may have with len(p) = k > 0 on the source `in`: at
\* the end the stream's end condition; before it between 1 and k bytes, the
\* last of them with or without the end condition.
SourceReads(in, k) ==
    LET rem == Len(in.data) - in.pos IN
    IF rem = 0
    THEN {[n |-> 0, err |-> in.term]}
    ELSE {[n |-> c, err |-> e] :
            c \in 1..Min(k, rem), e \in {"", in.term}} \
         {[n |-> c, err |-> in.term] : c \in 1..(rem - 1)}

Taken(in, n) == SubSeq(in.data, in.pos + 1, in.pos + n)

Advance(in, n) == [in EXCEPT !.pos = @ + n]

\* One pass of the loop of io.ReadAtLeast(input, buffer[:], len(buffer)):
\*   for n < min && err == nil { nn, err = r.Read(buf[n:]); n += nn }
PeekRead ==
    /\ pc = "peek"
    /\ Len(buffer) < BufLen /\ rerr = ""
    /\ \E r \in SourceReads(input, BufLen - Len(buffer)) :
         /\ buffer' = buffer \o Taken(input, r.n)
         /\ input' = Advance(input, r.n)
         /\ rerr' = r.err
    /\ UNCHANGED <<cgo, op, pc, ret, rs, res, out, outEnd, cerr, creq, wr, dest, calls>>

\* The end of io.ReadAtLeast:
\*   if n >= min { err = nil } else if n > 0 && err == EOF { err = ErrUnexpectedEOF }
ReadAtLeastErr(n, e) ==
    IF n >= BufLen THEN ""
    ELSE IF n > 0 /\ e = EOF THEN ErrUnexpectedEOF ELSE e

\* Mutant of MultiReader: the source alone, without the peeked bytes.
MultiReaderLost(buf) == [buf |-> <<>>, bpos |-> 0]

\* io.MultiReader(bytes.NewReader(buffer[:n]), input)
MultiReader(buf) == [buf |-> buf, bpos |-> 0]

\* Mutant of DetectReturn: only io.EOF is tolerated, not io.ErrUnexpectedEOF.
DetectReturnStrict(order, buf, e) ==
    IF e # "" /\ e # EOF
    THEN [ret |-> [name |-> "", decompressor |-> NoDecompressor, stream |-> "nil",
                   err |-> Err(e, "", "")],
          rs |-> NoRs]
    ELSE LET m == MatchPrefix(order, buf) IN
         [ret |-> [name |-> m.name, decompressor |-> m.decompressor,
                   stream |-> "multi", err |-> NilErr],
          rs |-> MultiReader(buf)]

\* Mutant of DetectReturn: a real error is ignored and the bytes read so far
\* are matched.
DetectReturnLenient(order, buf, e) ==
    LET m == MatchPrefix(order, buf) IN
    [ret |-> [name |-> m.name, decompressor |-> m.decompressor,
              stream |-> "multi", err |-> NilErr],
     rs |-> MultiReader(buf)]

\* DetectCompressionFormat after the peek: the early return on a real error,
\* else the match over the registry in the order `order`.
DetectReturn(order, buf, e) ==
    IF e # "" /\ e # EOF /\ e # ErrUnexpectedEOF
    THEN [ret |-> [name |-> "", decompressor |-> NoDecompressor, stream |-> "nil",
                   err |-> Err(e, "", "")],
          rs |-> NoRs]
    ELSE LET m == MatchPrefix(order, buf) IN
         [ret |-> [name |-> m.name, decompressor |-> m.decompressor,
                   stream |-> "multi", err |-> NilErr],
          rs |-> MultiReader(buf)]

\* func DetectCompressionFormat(input io.Reader), from the end of the peek to
\* its return (DetectCompression passes the result on without the name).
DetectCompressionFormat ==
    /\ pc = "peek"
    /\ ~(Len(buffer) < BufLen /\ rerr = "")
    /\ \E order \in Orders :
         LET d == DetectReturn(order, buffer, ReadAtLeastErr(Len(buffer), rerr)) IN
         /\ ret' = d.ret
         /\ rs' = d.rs
    /\ pc' = IF op = "detect" THEN "returned" ELSE "detected"
    /\ UNCHANGED <<cgo, op, input, buffer, rerr, res, out, outEnd, cerr, creq, wr, dest, calls>>

\* ------------------------------------------------- the returned streams

\* What is left to read in the reconstructed stream.
View(r, in) == Drop(r.buf, r.bpos) \o Drop(in.data, in.pos)

\* The reconstructed stream and the source after k bytes were read from the
\* reconstructed stream: the buffered prefix first, then the source.
Consume(r, in, k) ==
    LET b == Min(k, Len(r.buf) - r.bpos) IN
    [rs |-> [r EXCEPT !.bpos = @ + b], input |-> Advance(in, k - b)]

\* ioutil.NopCloser(stream)
NopCloser(stream) == [stream |-> "nop", held |-> <<>>, wasCompressed |-> FALSE, err |-> NilErr]

\* Mutant of AutoReturn: an unrecognized stream is an error.
AutoReturnNoPassthrough(d, withCgo, view, term) ==
    IF d.err # NilErr
    THEN [stream |-> "nil", held |-> <<>>, wasCompressed |-> FALSE,
          err |-> Wrapf(d.err, "Error detecting compression")]
    ELSE IF d.decompressor # NoDecompressor
         THEN LET c == CallDecompressor(d.decompressor, withCgo, view, term) IN
              IF c.err # NilErr
              THEN [stream |-> "nil", held |-> c.held, wasCompressed |-> FALSE,
                    err |-> Wrapf(c.err, "Error initializing decompression")]
              ELSE [stream |-> c.kind, held |-> c.held,
                    wasCompressed |-> d.decompressor # NoDecompressor, err |-> NilErr]
         ELSE [stream |-> "nil", held |-> <<>>, wasCompressed |-> FALSE,
               err |-> Err("unknown compression format", "", "")]

\* Mutant of AutoReturn: the constructor's error is returned as it is.
AutoReturnUnwrapped(d, withCgo, view, term) ==
    IF d.err # NilErr
    THEN [stream |-> "nil", held |-> <<>>, wasCompressed |-> FALSE,
          err |-> Wrapf(d.err, "Error detecting compression")]
    ELSE IF d.decompressor # NoDecompressor
         THEN LET c == CallDecompressor(d.decompressor, withCgo, view, term) IN
              IF c.err # NilErr
              THEN [stream |-> "nil", held |-> c.held, wasCompressed |-> FALSE,
                    err |-> c.err]
              ELSE [stream |-> c.kind, held |-> c.held,
                    wasCompressed |-> d.decompressor # NoDecompressor, err |-> NilErr]
         ELSE NopCloser(d.stream)

\* func AutoDecompress(stream io.Reader) (io.ReadCloser, bool, error), after
\* DetectCompression returned `d`: the result and the bytes the decompressor
\* constructor read.
AutoReturn(d, withCgo, view, term) ==
    IF d.err # NilErr
    THEN [stream |-> "nil", held |-> <<>>, wasCompressed |-> FALSE,
          err |-> Wrapf(d.err, "Error detecting compression")]
    ELSE IF d.decompressor # NoDecompressor
         THEN LET c == CallDecompressor(d.decompressor, withCgo, view, term) IN
              IF c.err # NilErr
              THEN [stream |-> "nil", held |-> c.held, wasCompressed |-> FALSE,
                    err |-> Wrapf(c.err, "Error initializing decompression")]
              ELSE [stream |-> c.kind, held |-> c.held,
                    wasCompressed |-> d.decompressor # NoDecompressor, err |-> NilErr]
         ELSE NopCloser(d.stream)

AutoDecompress ==
    /\ pc = "detected"
    /\ op = "auto"
    /\ LET a == AutoReturn(ret, cgo, View(rs, input), input.term)
           c == Consume(rs, input, Len(a.held))
       IN /\ res' = a
          /\ rs' = c.rs
          /\ input' = c.input
    /\ pc' = "returned"
    /\ UNCHANGED <<cgo, op, buffer, rerr, ret, out, outEnd, cerr, creq, wr, dest, calls>>

\* The stream the operation under way handed to its caller.
Returned == IF op = "detect" THEN ret.stream ELSE res.stream

\* multiReader.Read(p) with len(p) = k: the buffered prefix while it lasts
\* (bytes.Reader.Read copies as much as fits), then the source, whose end
\* condition passes through.
MultiReads(r, in, k) ==
    IF r.bpos < Len(r.buf)
    THEN LET n == Min(k, Len(r.buf) - r.bpos) IN
         {[data |-> SubSeq(r.buf, r.bpos + 1, r.bpos + n), err |-> "",
           rs |-> [r EXCEPT !.bpos = @ + n], input |-> in]}
    ELSE {[data |-> Taken(in, x.n), err |-> x.err, rs |-> r,
           input |-> Advance(in, x.n)] : x \in SourceReads(in, k)}

\* A consumer's Read on the reconstructed stream, bare or under NopCloser.
ReadStream ==
    /\ pc = "returned"
    /\ Returned \in {"multi", "nop"}
    /\ \E k \in 1..MaxRead : \E x \in MultiReads(rs, input, k) :
         /\ out' = out \o x.data
         /\ outEnd' = x.err
         /\ rs' = x.rs
         /\ input' = x.input
         /\ pc' = IF x.err = "" THEN "returned" ELSE "eof"
    /\ UNCHANGED <<cgo, op, buffer, rerr, ret, res, cerr, creq, wr, dest, calls>>

\* A consumer reading a decompressor's stream to its end: the codec reads
\* all of the reconstructed stream and yields the payload or fails.
ReadDecoded ==
    /\ pc = "returned"
    /\ Returned \in AlgoNames
    /\ LET v == View(rs, input)
           d == Decode(res.stream, res.held \o v)
           c == Consume(rs, input, Len(v))
       IN /\ rs' = c.rs
          /\ input' = c.input
          /\ IF input.term # EOF
             THEN out' = out /\ outEnd' = input.term
             ELSE IF d.ok THEN out' = d.data /\ outEnd' = EOF
                  ELSE out' = out /\ outEnd' = d.err
    /\ pc' = "eof"
    /\ UNCHANGED <<cgo, op, buffer, rerr, ret, res, cerr, creq, wr, dest, calls>>

\* Close of the stream AutoDecompress returned: the NopCloser's Close does
\* nothing and returns nil; no codec's Close closes the stream under it.
CloseReturned(kind, in) == [err |-> NilErr, input |-> in]

Close ==
    /\ pc \in {"returned", "eof"}
    /\ op = "auto"
    /\ res.stream # "nil"
    /\ LET c == CloseReturned(res.stream, input) IN
         /\ cerr' = c.err
         /\ input' = c.input
    /\ pc' = "closed"
    /\ UNCHANGED <<cgo, op, buffer, rerr, ret, rs, res, out, outEnd, creq, wr, dest, calls>>

\* ----------------------------------------------------------- compressing

\* The caller's CompressStream(dest, name, level).
CallCompressStream ==
    /\ pc = "compress"
    /\ LET c == CompressStream(creq.name, creq.level, cgo) IN
         /\ wr' = [err |-> c.r.err, writer |-> c.r.writer]
         /\ dest' = dest \o c.r.emit
         /\ calls' = calls \o c.called
         /\ pc' = IF c.r.err = NilErr THEN "writing" ELSE "failed"
    /\ UNCHANGED <<cgo, op, input, buffer, rerr, ret, rs, res, out, outEnd, cerr, creq>>

\* What a codec's writer puts before its first output: the header, unless
\* it is out already.
Lead(w) == IF w.hdr THEN <<>> ELSE Header(w.kind)

\* Write of the next bytes of the payload to the returned writer.
Write ==
    /\ pc = "writing"
    /\ wr.writer.pos < Len(creq.payload)
    /\ \E n \in 1..(Len(creq.payload) - wr.writer.pos) :
         LET chunk == SubSeq(creq.payload, wr.writer.pos + 1, wr.writer.pos + n) IN
         /\ dest' = dest \o Lead(wr.writer) \o Scramble(chunk)
         /\ wr' = [wr EXCEPT !.writer.hdr = TRUE, !.writer.pos = @ + n]
    /\ UNCHANGED <<cgo, op, pc, input, buffer, rerr, ret, rs, res, out, outEnd, cerr, creq, calls>>

\* Close of the returned writer once the payload is written: the codec ends
\* its stream with the checksum.
CloseWriter ==
    /\ pc = "writing"
    /\ wr.writer.pos = Len(creq.payload)
    /\ dest' = dest \o Lead(wr.writer) \o <<SumBytes(creq.payload)>>
    /\ wr' = [wr EXCEPT !.writer.hdr = TRUE]
    /\ pc' = "wclosed"
    /\ UNCHANGED <<cgo, op, input, buffer, rerr, ret, rs, res, out, outEnd, cerr, creq, calls>>

\* The caller hands the bytes produced to AutoDecompress.
Feed ==
    /\ pc = "wclosed"
    /\ op' = "auto"
    /\ pc' = "peek"
    /\ input' = NewStream(dest, EOF)
    /\ UNCHANGED <<cgo, buffer, rerr, ret, rs, res, out, outEnd, cerr, creq, wr, dest, calls>>

\* ---------------------------------------------------------- specification

Next ==
    \/ PeekRead
    \/ DetectCompressionFormat
    \/ AutoDecompress
    \/ ReadStream
    \/ ReadDecoded
    \/ Close
    \/ CallCompressStream
    \/ Write
    \/ CloseWriter
    \/ Feed

Spec == Init /\ [][Next]_vars

\* AutoDecompress is decompressing what CompressStream's writer produced.
RoundTrip == op = "auto" /\ wr.writer.kind # "nil"

TypeOK ==
    /\ cgo \in BOOLEAN
    /\ op \in {"detect", "auto", "compress"}
    /\ pc \in {"peek", "detected", "returned", "eof", "closed", "compress",
               "writing", "wclosed", "failed"}
    /\ input.pos \in 0..Len(input.data)
    /\ Len(buffer) <= BufLen
    /\ rs.bpos \in 0..Len(rs.buf)
    /\ pc = "wclosed" => dest = Encode(wr.writer.kind, creq.payload)

\* ----------------------------------------------------------------- claims

\* The magic prefixes and constructors as the claims state them.
StatedPrefix ==
    [gzip  |-> <<31, 139, 8>>,
     bzip2 |-> <<66, 90, 104>>,
     xz    |-> <<253, 55, 122, 88, 90, 0>>,
     zstd  |-> <<40, 181, 47, 253>>]

StatedDecompressor ==
    [gzip  |-> "GzipDecompressor",
     bzip2 |-> "Bzip2Decompressor",
     xz    |-> "XzDecompressor",
     zstd  |-> "ZstdDecompressor"]

StatedNames == {"gzip", "bzip2", "xz", "zstd"}

\* The stated formats whose prefix starts the bytes s.
StartedBy(s) == {a \in StatedNames : HasPrefix(s, StatedPrefix[a])}

\* DetectCompressionFormat has returned.
Detected == op \in {"detect", "auto"} /\ pc \in {"detected", "returned", "eof", "closed"}

\* AutoDecompress has returned.
AutoReturned == op = "auto" /\ pc \in {"returned", "eof", "closed"}

\* CompressStream has returned.
Compressed == pc \in {"writing", "wclosed", "failed"} \/ RoundTrip

\* The peek failed with an error other than the two ends of stream.
PeekFailed == Detected /\ ReadAtLeastErr(Len(buffer), rerr) \in RealErrors

\* C1: whenever DetectCompressionFormat returned no error, the bytes read
\* from the reconstructed stream so far followed by the bytes still to come
\* are exactly the bytes of the input stream, and at the end of the
\* reconstructed stream the bytes read are exactly the input's, ended as
\* the input ends.
C1_ReconstructedIsInput ==
    (op = "detect" /\ Detected /\ ret.err = NilErr) =>
        /\ ret.stream = "multi"
        /\ out \o View(rs, input) = input.data
        /\ (pc = "eof" => out = input.data /\ outEnd = input.term)

\* A stream longer than the peek buffer, matched, read to its end.
C1_Witness ==
    /\ op = "detect" /\ pc = "eof" /\ ret.err = NilErr
    /\ Len(input.data) > BufLen /\ ret.name # ""
    /\ out = input.data

\* C2 as stated: for every input stream the name N and N's constructor are
\* returned exactly when the peeked bytes begin with N's prefix.
C2_Original ==
    Detected =>
        \A a \in StatedNames :
            (ret.name = a /\ ret.decompressor = StatedDecompressor[a])
                <=> HasPrefix(buffer, StatedPrefix[a])

\* C2 amended: when the peek did not fail with a real error, the name N and
\* N's constructor are returned exactly when the peeked bytes (the first 8
\* at most) begin with N's prefix; without a match the name is empty, the
\* constructor absent and the error nil; the name is non-empty exactly when
\* the constructor is present.
C2_MatchIffPrefix ==
    Detected =>
        /\ buffer = SubSeq(input.data, 1, Len(buffer)) /\ Len(buffer) <= BufLen
        /\ ~PeekFailed =>
             /\ \A a \in StatedNames :
                  (ret.name = a /\ ret.decompressor = StatedDecompressor[a])
                      <=> HasPrefix(buffer, StatedPrefix[a])
             /\ StartedBy(buffer) = {} =>
                  ret.name = "" /\ ret.decompressor = NoDecompressor /\ ret.err = NilErr
        /\ ret.name # "" <=> ret.decompressor # NoDecompressor

\* A match on the longest prefix, and so on six of eight peeked bytes.
C2_Witness ==
    Detected /\ ret.name = "xz" /\ ret.decompressor = "XzDecompressor" /\ Len(buffer) = BufLen

\* C3 as stated: a stream of fewer than 8 bytes is never an error, never
\* matches, and is reconstructed as it was.
C3_Original ==
    (Detected /\ input.term = EOF /\ Len(input.data) < BufLen /\ ~RoundTrip) =>
        /\ ret.err = NilErr
        /\ ret.name = "" /\ ret.decompressor = NoDecompressor
        /\ buffer \o Drop(input.data, Len(buffer)) = input.data

\* C3 amended: a stream of fewer than 8 bytes is never an error; it matches
\* no prefix longer than itself, and matches a format exactly when it begins
\* with that format's whole prefix; all of it is peeked, and the
\* reconstructed stream yields it byte for byte.
C3_ShortStream ==
    (Detected /\ input.term = EOF /\ Len(input.data) < BufLen /\ ~RoundTrip) =>
        /\ ret.err = NilErr /\ ret.stream = "multi"
        /\ \A a \in StatedNames :
             Len(StatedPrefix[a]) > Len(input.data) => ret.name # a
        /\ \A a \in StatedNames :
             ret.name = a <=> HasPrefix(input.data, StatedPrefix[a])
        /\ buffer = input.data
        /\ rs.buf = input.data
        /\ (op = "detect" => out \o View(rs, input) = input.data)
        /\ (op = "detect" /\ pc = "eof" => out = input.data)

\* A three-byte stream that is exactly the gzip prefix, detected as gzip.
C3_Witness ==
    /\ op = "detect" /\ pc = "eof" /\ input.term = EOF
    /\ input.data = <<31, 139, 8>> /\ ret.name = "gzip" /\ out = input.data

\* C4: when the peek fails with an error other than EOF and unexpected EOF,
\* that error is returned as it is, with an empty name, no constructor and
\* no stream, whatever the bytes peeked begin with, and the source is not
\* read again.
C4_RealErrorReturned ==
    PeekFailed =>
        /\ ret.err = Err(rerr, "", "") /\ rerr = input.term
        /\ ret.name = "" /\ ret.decompressor = NoDecompressor
        /\ ret.stream = "nil" /\ rs = NoRs
        /\ input.pos = Len(buffer)
        /\ out = <<>>

\* The peek failed after bytes that begin with the gzip prefix.
C4_Witness ==
    /\ PeekFailed /\ HasPrefix(buffer, StatedPrefix["gzip"])
    /\ ret.name = "" /\ ret.err.msg = "i/o timeout"

\* The decoded stream was read to its end.
ReadToEnd == outEnd # ""

\* C5 as stated: for every registered compressor name, with cgo and the
\* default level, CompressStream yields a writer, and what it produces is
\* detected as compressed and decodes to the payload.
C5_Original ==
    (cgo /\ ~creq.level.set /\ creq.name \in DOMAIN compressors /\ Compressed) =>
        /\ pc # "failed"
        /\ (AutoReturned => res.wasCompressed)
        /\ (AutoReturned /\ ReadToEnd => out = creq.payload)

\* C5 amended: for every registered name whose compressor constructor
\* succeeds (gzip with no level or a level gzip accepts, xz, zstd in the
\* build with cgo: not bzip2, whose constructor always fails), what the
\* writer produced for the payload B is detected as that format,
\* AutoDecompress returns no error and wasCompressed = true, and the decoded
\* stream read to its end is exactly B.
C5_RoundTrip ==
    /\ Compressed =>
         (pc # "failed" <=>
            \/ creq.name = "gzip" /\ (creq.level.set => creq.level.val \in (-2)..9)
            \/ creq.name = "xz"
            \/ creq.name = "zstd" /\ cgo)
    /\ (RoundTrip /\ Detected) => ret.name = creq.name /\ ret.err = NilErr
    /\ (RoundTrip /\ AutoReturned) =>
         /\ res.err = NilErr /\ res.wasCompressed /\ res.stream = creq.name
         /\ (ReadToEnd => out = creq.payload /\ outEnd = EOF)

\* A non-empty payload written through the gzip writer and read back.
C5_Witness ==
    /\ RoundTrip /\ AutoReturned /\ ReadToEnd
    /\ creq.name = "gzip" /\ creq.level.set
    /\ Len(creq.payload) = MaxPayload /\ out = creq.payload

\* C6: on a byte sequence that begins with no registered prefix,
\* AutoDecompress returns wasCompressed = false, no error and a stream that
\* yields the input byte for byte; closing that stream returns nil and
\* leaves the input open and where it was.
C6_Uncompressed ==
    (AutoReturned /\ ~RoundTrip /\ input.term = EOF /\ StartedBy(input.data) = {}) =>
        /\ res.err = NilErr /\ ~res.wasCompressed /\ res.stream = "nop"
        /\ out \o View(rs, input) = input.data
        /\ (ReadToEnd => out = input.data /\ outEnd = EOF)
        /\ (pc = "closed" => cerr = NilErr /\ ~input.closed)

\* A stream longer than the peek buffer, read in part and then closed.
C6_Witness ==
    /\ AutoReturned /\ ~RoundTrip /\ input.term = EOF /\ StartedBy(input.data) = {}
    /\ pc = "closed" /\ Len(input.data) > BufLen
    /\ out # <<>> /\ View(rs, input) # <<>>

\* C7: CompressStream with a name that is no key of the compressor registry
\* returns an error naming that name and no writer, whatever the level; no
\* constructor is invoked and nothing is written to the destination.
C7_UnknownName ==
    (Compressed /\ creq.name \notin StatedNames) =>
        /\ pc = "failed"
        /\ wr.err = Err("cannot find compressor for", creq.name, "")
        /\ wr.writer = NoWriter
        /\ calls = <<>>
        /\ dest = <<>>

\* An unregistered name asked for with a level.
C7_Witness ==
    Compressed /\ creq.name = "lz4" /\ creq.level.set /\ wr.err.arg = "lz4"

\* C8: CompressStream with the name bzip2 returns the "not supported" error
\* and no writer, with no level and with every level, and writes nothing to
\* the destination.
C8_Bzip2NotSupported ==
    (Compressed /\ creq.name = "bzip2") =>
        /\ pc = "failed"
        /\ wr.err = Err("bzip2 compression not supported", "", "")
        /\ wr.writer = NoWriter
        /\ dest = <<>>

\* bzip2 asked for with a level.
C8_Witness ==
    /\ Compressed /\ creq.name = "bzip2" /\ creq.level = Level(6)
    /\ calls = <<"bzip2Compressor">> /\ wr.err # NilErr

\* C9: AutoDecompress returns an error in two cases only: the detection
\* failed (the "detecting" label, wrapping that error) or the matched
\* constructor failed (the "initializing decompression" label), as the zstd
\* constructor does without cgo; then the stream is nil and wasCompressed
\* false.  Without an error the stream is non-nil and wasCompressed is true
\* exactly when a format matched.
C9_ErrorStages ==
    AutoReturned =>
        /\ ret.err # NilErr <=>
             res.err = Err("Error detecting compression", "", ret.err.msg)
        /\ res.err.msg = "Error initializing decompression" =>
             /\ ret.err = NilErr /\ ret.decompressor # NoDecompressor
             /\ res.err.cause # ""
        /\ res.err # NilErr =>
             /\ res.err.msg \in {"Error detecting compression",
                                 "Error initializing decompression"}
             /\ res.stream = "nil" /\ ~res.wasCompressed
        /\ res.err = NilErr =>
             /\ res.stream # "nil"
             /\ res.wasCompressed <=> ret.name # ""
        /\ (ret.name = "zstd" /\ ~cgo) =>
             res.err = Err("Error initializing decompression", "", "zstd not supported")
        /\ (ret.err = NilErr /\ ret.name = "") => res.err = NilErr

\* The zstd constructor failing in the build without cgo.
C9_Witness ==
    /\ AutoReturned /\ ~cgo /\ ret.name = "zstd"
    /\ res.err.msg = "Error initializing decompression" /\ res.stream = "nil"

\* C10: no registered prefix is a prefix of another; so at most one registry
\* entry matches the peeked bytes, and the matches over the registry in all
\* the iteration orders give one and the same name and constructor, which is
\* what was returned.
C10_OrderIndependent ==
    /\ \A a, b \in AlgoNames :
         a # b => ~IsPrefix(compressionAlgos[a].prefix, compressionAlgos[b].prefix)
    /\ Detected =>
         /\ Cardinality({a \in AlgoNames : HasPrefix(buffer, compressionAlgos[a].prefix)}) <= 1
         /\ Cardinality({MatchPrefix(o, buffer) : o \in Orders}) = 1
         /\ ret.err = NilErr =>
              \A o \in Orders :
                  MatchPrefix(o, buffer) = [name |-> ret.name, decompressor |-> ret.decompressor]

\* A match was returned.
C10_Witness ==
    Detected /\ ret.name = "zstd" /\ HasPrefix(buffer, compressionAlgos["zstd"].prefix)

====
